---------------------------- MODULE Spec2Model ----------------------------
(***************************************************************************)
(* The Citi Bike analysis notebook (src/CitiBikeAnalysis.ipynb) as a state *)
(* machine: one action per notebook cell, executed top to bottom; the two  *)
(* cells that run a Spark job are a start action, the job's tasks and      *)
(* merges, and a finish action.                                            *)
(*                                                                         *)
(* Numbers.  The notebook computes with IEEE doubles.  The model keeps the *)
(* structure of that arithmetic (binary significand, round to nearest,     *)
(* ties to even, NaN) but with a significand of Prec bits instead of 53,   *)
(* and an unbounded exponent.  A number is a record [s, m, e] standing for *)
(* s * m * 2^e with 2^(Prec-1) <= m < 2^Prec, zero is m = 0, NaN is s = 0. *)
(* Timestamps are integers counting ticks, TicksPerSecond to the second.   *)
(***************************************************************************)
EXTENDS Integers, Sequences, FiniteSets, TLC

VARIABLES pc, df, count_rows, dropped, num_trips, expected_revenue,
          bucket_pd, bars, part, tasks, partial, acc

vars == <<pc, df, count_rows, dropped, num_trips, expected_revenue,
          bucket_pd, bars, part, tasks, partial, acc>>

(***************************************************************************)
(* Bounds of the model.                                                    *)
(***************************************************************************)
MaxRows == 3

NumPartitions == 2

TicksPerSecond == 2

(***************************************************************************)
(* Floating point.                                                         *)
(***************************************************************************)
Prec == 12

NaN == [s |-> 0, m |-> 0, e |-> 0]

Zero == [s |-> 1, m |-> 0, e |-> 0]

IsNaN(x) == x.s = 0

RECURSIVE BitLen(_)
BitLen(m) == IF m = 0 THEN 0 ELSE 1 + BitLen(m \div 2)

\* s * m * 2^e (m any natural number) rounded to Prec bits, ties to even.
Round(s, m, e) ==
    IF m = 0 THEN Zero
    ELSE LET k == BitLen(m) - Prec IN
         IF k <= 0 THEN [s |-> s, m |-> m * 2^(0 - k), e |-> e + k]
         ELSE LET q  == m \div 2^k
                  r  == m % 2^k
                  h  == 2^(k - 1)
                  q1 == IF r > h \/ (r = h /\ q % 2 = 1) THEN q + 1 ELSE q
              IN  IF q1 = 2^Prec
                  THEN [s |-> s, m |-> 2^(Prec - 1), e |-> e + k + 1]
                  ELSE [s |-> s, m |-> q1, e |-> e + k]

FromInt(n) == IF n < 0 THEN Round(-1, 0 - n, 0) ELSE Round(1, n, 0)

One == FromInt(1)

Neg(x) == IF IsNaN(x) \/ x.m = 0 THEN x ELSE [x EXCEPT !.s = 0 - x.s]

Mul(x, y) ==
    IF IsNaN(x) \/ IsNaN(y) THEN NaN
    ELSE Round(x.s * y.s, x.m * y.m, x.e + y.e)

Add(x, y) ==
    IF IsNaN(x) \/ IsNaN(y) THEN NaN
    ELSE IF x.m = 0 THEN y
    ELSE IF y.m = 0 THEN x
    ELSE LET hi == IF x.e >= y.e THEN x ELSE y
             lo == IF x.e >= y.e THEN y ELSE x
             d  == hi.e - lo.e
         IN  IF d > Prec + 2 THEN hi
             ELSE LET v == hi.s * hi.m * 2^d + lo.s * lo.m
                  IN  IF v < 0 THEN Round(-1, 0 - v, lo.e)
                      ELSE Round(1, v, lo.e)

Sub(x, y) == Add(x, Neg(y))

\* x / 2: exact in binary floating point.
Half(x) == IF IsNaN(x) \/ x.m = 0 THEN x ELSE [x EXCEPT !.e = x.e - 1]

RECURSIVE ISqrtBetween(_, _, _)
\* The largest r in lo..hi with r * r <= n, given lo * lo <= n.
ISqrtBetween(n, lo, hi) ==
    IF lo = hi THEN lo
    ELSE LET mid == (lo + hi + 1) \div 2
         IN  IF mid * mid <= n THEN ISqrtBetween(n, mid, hi)
             ELSE ISqrtBetween(n, lo, mid - 1)

\* The square root, correctly rounded; NaN below zero.
Sqrt(x) ==
    IF IsNaN(x) THEN NaN
    ELSE IF x.m = 0 THEN x
    ELSE IF x.s < 0 THEN NaN
    ELSE LET sh == IF (x.e - (Prec + 2)) % 2 = 0 THEN Prec + 2 ELSE Prec + 3
             n  == x.m * 2^sh
             r  == ISqrtBetween(n, 0, 2^(Prec + 2))
             st == IF r * r = n THEN 0 ELSE 1
         IN  Round(1, 2 * r + st, ((x.e - sh) \div 2) - 1)

\* Order of the finite numbers.
LtFin(x, y) ==
    LET sx == IF x.m = 0 THEN 0 ELSE x.s
        sy == IF y.m = 0 THEN 0 ELSE y.s
    IN  IF sx # sy THEN sx < sy
        ELSE IF sx = 0 THEN FALSE
        ELSE IF sx = 1 THEN x.e < y.e \/ (x.e = y.e /\ x.m < y.m)
        ELSE y.e < x.e \/ (x.e = y.e /\ y.m < x.m)

\* Column comparison: Spark SQL orders NaN above every other value.
Le(x, y) ==
    IF IsNaN(x) THEN IsNaN(y)
    ELSE IF IsNaN(y) THEN TRUE
    ELSE ~LtFin(y, x)

Gt(x, y) == ~Le(x, y)


(***************************************************************************)
(* Library functions on the doubles (java.lang.Math behind the column      *)
(* functions): each returns the exact result rounded to Prec bits.  Below  *)
(* 2^-6 in magnitude the rounded sine and arcsine of x are x itself and    *)
(* the rounded cosine is 1 (the next terms of the series are under half a  *)
(* unit in the last place); the larger arguments the inputs of the model   *)
(* produce are tabulated.                                                  *)
(***************************************************************************)
N(s, m, e) == [s |-> s, m |-> m, e |-> e]

Small(x) == x.m = 0 \/ x.e + Prec <= -6

SinT ==
    (N(-1, 2574, -14) :> N(-1, 2563, -14)) @@
    (N(1, 2574, -14)  :> N(1, 2563, -14)) @@
    (N(1, 3218, -11)  :> N(1, 2048, -11))

CosT ==
    (N(-1, 2574, -14) :> N(1, 4046, -12)) @@
    (N(1, 2574, -14)  :> N(1, 4046, -12)) @@
    (N(-1, 2911, -12) :> N(1, 3104, -12)) @@
    (N(1, 2911, -12)  :> N(1, 3104, -12))

AsinT ==
    (N(1, 2048, -11) :> N(1, 3217, -11))

Sin(x) == IF IsNaN(x) THEN NaN ELSE IF Small(x) THEN x ELSE SinT[x]

Cos(x) == IF IsNaN(x) THEN NaN ELSE IF Small(x) THEN One ELSE CosT[x]

\* Math.asin: NaN outside [-1, 1].
Asin(x) ==
    IF IsNaN(x) THEN NaN
    ELSE IF LtFin(One, x) \/ LtFin(x, Neg(One)) THEN NaN
    ELSE IF Small(x) THEN x
    ELSE AsinT[x]

\* pi / 180 rounded: Math.toRadians multiplies by it.
DegToRad == N(1, 2288, -17)

Radians(x) == Mul(x, DegToRad)

\* x ** 2
Sq(x) == Mul(x, x)

(***************************************************************************)
(* The program's constants.                                                *)
(***************************************************************************)
R == 3959

LongTripSeconds == 1800

\* 0.2 rounded to Prec bits.
PerRide == N(1, 3277, -14)

bucket_order == <<"0-1", "2-4", "4-9", "10+">>

None == "None"

Partitions == 1..NumPartitions

(***************************************************************************)
(* Cell 1: select and cast the six columns, count, drop incomplete rows.   *)
(* A CSV cell is [k, v]: k = "val" for a well-formed value v, "empty" for  *)
(* an absent one, "text" for one that does not parse, "nan" for the text   *)
(* NaN.  A cast column value is [null, v].                                 *)
(***************************************************************************)
CastTimestamp(c) ==
    IF c.k = "val" THEN [null |-> FALSE, v |-> c.v]
    ELSE [null |-> TRUE, v |-> 0]

CastDouble(c) ==
    IF c.k = "val" THEN [null |-> FALSE, v |-> c.v]
    ELSE IF c.k = "nan" THEN [null |-> FALSE, v |-> NaN]
    ELSE [null |-> TRUE, v |-> Zero]

SelectCast(row) ==
    [started_at |-> CastTimestamp(row.started_at),
     ended_at   |-> CastTimestamp(row.ended_at),
     start_lat  |-> CastDouble(row.start_lat),
     start_lng  |-> CastDouble(row.start_lng),
     end_lat    |-> CastDouble(row.end_lat),
     end_lng    |-> CastDouble(row.end_lng)]

Select(rows) == [i \in 1..Len(rows) |-> SelectCast(rows[i])]

\* Variant of NaDrop: na.drop("all"), which drops a row only when every
\* column is null.
NaDropAll(rows) ==
    SelectSeq(rows, LAMBDA r :
        \/ ~r.started_at.null \/ ~r.ended_at.null
        \/ ~r.start_lat.null \/ ~r.start_lng.null
        \/ ~r.end_lat.null \/ ~r.end_lng.null)

\* df.na.drop() keeps a row when no column is null and no double is NaN.
Complete(r) ==
    /\ ~r.started_at.null /\ ~r.ended_at.null
    /\ \A c \in {r.start_lat, r.start_lng, r.end_lat, r.end_lng} :
           ~c.null /\ ~IsNaN(c.v)

NaDrop(rows) == SelectSeq(rows, Complete)

Cell1 ==
    /\ pc = "cell1"
    /\ LET selected == Select(df)
           cleaned  == NaDrop(selected)
       IN  /\ count_rows' = Len(selected)
           /\ df' = cleaned
           /\ dropped' = Len(selected) - Len(cleaned)
    /\ pc' = "cell2"
    /\ UNCHANGED <<num_trips, expected_revenue, bucket_pd, bars,
                   part, tasks, partial, acc>>

(***************************************************************************)
(* Cell 2: trip duration in whole seconds and the long trips (their count  *)
(* is a Spark job, below).                                                 *)
(***************************************************************************)
\* Variant of tripduration: the length of the interval without its sign.
tripdurationAbs(r) ==
    IF r.ended_at.v >= r.started_at.v
    THEN (r.ended_at.v - r.started_at.v) \div TicksPerSecond
    ELSE (r.started_at.v - r.ended_at.v) \div TicksPerSecond

\* The cast of an interval to long divides by the ticks of a second and
\* truncates towards zero.
TruncDiv(a, b) == IF a >= 0 THEN a \div b ELSE 0 - ((0 - a) \div b)

tripduration(r) == TruncDiv(r.ended_at.v - r.started_at.v, TicksPerSecond)

WithTripDuration(rows) ==
    [i \in 1..Len(rows) |->
        [started_at |-> rows[i].started_at, ended_at |-> rows[i].ended_at,
         start_lat |-> rows[i].start_lat, start_lng |-> rows[i].start_lng,
         end_lat |-> rows[i].end_lat, end_lng |-> rows[i].end_lng,
         tripduration |-> tripduration(rows[i])]]

\* Variant of IsLongTrip: 1800 seconds counted as long.
IsLongTripInclusive(r) == r.tripduration >= LongTripSeconds

IsLongTrip(r) == r.tripduration > LongTripSeconds

long_trips(rows) == SelectSeq(rows, IsLongTrip)

(***************************************************************************)
(* Cell 3: the expected revenue and its two-decimal print.                 *)
(***************************************************************************)
Revenue(n) == Mul(FromInt(n), PerRide)

\* f"{x:.2f}" for x >= 0, as a number of cents: x * 100 rounded to the
\* nearest integer, ties to even.
Format2f(x) ==
    IF x.m = 0 THEN 0
    ELSE IF x.e >= 0 THEN x.m * 2^x.e * 100
    ELSE LET d == 2^(0 - x.e)
             q == (x.m * 100) \div d
             r == (x.m * 100) % d
         IN  IF 2 * r > d \/ (2 * r = d /\ q % 2 = 1) THEN q + 1 ELSE q

\* Variant of Cell3: the revenue taken over every trip.
Cell3AllTrips ==
    /\ pc = "cell3"
    /\ expected_revenue' = Revenue(Len(df))
    /\ pc' = "cell4"
    /\ UNCHANGED <<df, count_rows, dropped, num_trips, bucket_pd, bars,
                   part, tasks, partial, acc>>

Cell3 ==
    /\ pc = "cell3"
    /\ expected_revenue' = Revenue(num_trips)
    /\ pc' = "cell4"
    /\ UNCHANGED <<df, count_rows, dropped, num_trips, bucket_pd, bars,
                   part, tasks, partial, acc>>

(***************************************************************************)
(* Cell 4: the Haversine distance column.                                  *)
(***************************************************************************)
\* The argument of sqrt.
HaversineA(r) ==
    Add(Sq(Sin(Half(Sub(Radians(r.end_lat.v), Radians(r.start_lat.v))))),
        Mul(Mul(Cos(Radians(r.start_lat.v)), Cos(Radians(r.end_lat.v))),
            Sq(Sin(Half(Sub(Radians(r.end_lng.v), Radians(r.start_lng.v)))))))

distance(r) == Mul(FromInt(R * 2), Asin(Sqrt(HaversineA(r))))

WithDistance(rows) ==
    [i \in 1..Len(rows) |->
        [started_at |-> rows[i].started_at, ended_at |-> rows[i].ended_at,
         start_lat |-> rows[i].start_lat, start_lng |-> rows[i].start_lng,
         end_lat |-> rows[i].end_lat, end_lng |-> rows[i].end_lng,
         tripduration |-> rows[i].tripduration,
         distance |-> distance(rows[i])]]

Cell4 ==
    /\ pc = "cell4"
    /\ df' = WithDistance(df)
    /\ pc' = "cell5"
    /\ UNCHANGED <<count_rows, dropped, num_trips, expected_revenue,
                   bucket_pd, bars, part, tasks, partial, acc>>

(***************************************************************************)
(* Cell 5: group the trips by distance bucket, count (a Spark job, below), *)
(* collect to pandas.                                                      *)
(***************************************************************************)
\* Variant of distance_bucket: the first bucket closed below 1 only.
distance_bucket_open(d) ==
    IF ~Le(FromInt(1), d) THEN "0-1"
    ELSE IF Gt(d, FromInt(1)) /\ Le(d, FromInt(4)) THEN "2-4"
    ELSE IF Gt(d, FromInt(4)) /\ Le(d, FromInt(9)) THEN "4-9"
    ELSE "10+"

distance_bucket(d) ==
    IF Le(d, FromInt(1)) THEN "0-1"
    ELSE IF Gt(d, FromInt(1)) /\ Le(d, FromInt(4)) THEN "2-4"
    ELSE IF Gt(d, FromInt(4)) /\ Le(d, FromInt(9)) THEN "4-9"
    ELSE "10+"

\* groupBy(...).count(): one group for each label that occurs, no others.
GroupByCount(rows) ==
    LET keys == {distance_bucket(rows[i].distance) : i \in 1..Len(rows)}
    IN  [k \in keys |->
            Cardinality({i \in 1..Len(rows) :
                            distance_bucket(rows[i].distance) = k})]

\* toPandas(): the groups as rows, in whatever order the shuffle yields.
ToPandas(counts) ==
    LET n == Cardinality(DOMAIN counts)
    IN  {[i \in 1..n |-> [distance_bucket |-> f[i], count |-> counts[f[i]]]] :
            f \in {g \in [1..n -> DOMAIN counts] :
                      \A i, j \in 1..n : g[i] = g[j] => i = j}}

(***************************************************************************)
(* Cell 6: order the rows by the categorical bucket order and plot them.   *)
(***************************************************************************)
WithLabel(rows, label) ==
    SelectSeq(rows, LAMBDA r : r.distance_bucket = label)

\* sort_values on the ordered categorical: rows by the position of their
\* label in bucket_order.
SortValues(rows) ==
    WithLabel(rows, bucket_order[1]) \o WithLabel(rows, bucket_order[2]) \o
    WithLabel(rows, bucket_order[3]) \o WithLabel(rows, bucket_order[4])

Cell6 ==
    /\ pc = "cell6"
    /\ bucket_pd' = SortValues(bucket_pd)
    /\ bars' = bucket_pd'
    /\ pc' = "cell7"
    /\ UNCHANGED <<df, count_rows, dropped, num_trips, expected_revenue,
                   part, tasks, partial, acc>>

\* Cell 7: spark.stop().
Cell7 ==
    /\ pc = "cell7"
    /\ pc' = "done"
    /\ UNCHANGED <<df, count_rows, dropped, num_trips, expected_revenue,
                   bucket_pd, bars, part, tasks, partial, acc>>

(***************************************************************************)
(* The two Spark jobs (the count of cell 2, the grouped count of cell 5):   *)
(* the rows lie in partitions, a task per partition                        *)
(* computes partial counts, and the partial counts are merged by addition  *)
(* in the order the tasks deliver them.                                    *)
(***************************************************************************)
\* The ways to lay n rows out over the partitions (partition ids are
\* interchangeable: a row opens at most the next unused partition).
Layouts(n) ==
    {f \in [1..n -> Partitions] :
        \A i \in 1..n : \A p \in 1..(f[i] - 1) : \E j \in 1..(i - 1) : f[j] = p}

RowsOf(p) ==
    LET idx == {i \in 1..Len(df) : part[i] = p}
        RECURSIVE Take(_)
        Take(i) == IF i > Len(df) THEN <<>>
                   ELSE IF i \in idx THEN <<df[i]>> \o Take(i + 1)
                   ELSE Take(i + 1)
    IN  Take(1)

PartialCounts(p) ==
    IF pc = "cell2_job" THEN ("count" :> Len(long_trips(RowsOf(p))))
    ELSE GroupByCount(RowsOf(p))

\* Variant of MergeCounts: a later partial count replaces an earlier one.
MergeCountsReplace(a, b) ==
    [k \in DOMAIN a \cup DOMAIN b |-> IF k \in DOMAIN b THEN b[k] ELSE a[k]]

\* Merge of two partial results: integer addition per key.
MergeCounts(a, b) ==
    [k \in DOMAIN a \cup DOMAIN b |->
        (IF k \in DOMAIN a THEN a[k] ELSE 0) +
        (IF k \in DOMAIN b THEN b[k] ELSE 0)]

StartJob ==
    /\ part' \in Layouts(Len(df))
    /\ tasks' = [p \in Partitions |-> "pending"]
    /\ partial' = [p \in Partitions |-> <<>>]

Cell2Start ==
    /\ pc = "cell2"
    /\ df' = WithTripDuration(df)
    /\ StartJob
    /\ acc' = ("count" :> 0)
    /\ pc' = "cell2_job"
    /\ UNCHANGED <<count_rows, dropped, num_trips, expected_revenue,
                   bucket_pd, bars>>

Cell5Start ==
    /\ pc = "cell5"
    /\ StartJob
    /\ acc' = <<>>
    /\ pc' = "cell5_job"
    /\ UNCHANGED <<df, count_rows, dropped, num_trips, expected_revenue,
                   bucket_pd, bars>>

RunTask(p) ==
    /\ pc \in {"cell2_job", "cell5_job"}
    /\ tasks[p] = "pending"
    /\ partial' = [partial EXCEPT ![p] = PartialCounts(p)]
    /\ tasks' = [tasks EXCEPT ![p] = "done"]
    /\ UNCHANGED <<pc, df, count_rows, dropped, num_trips, expected_revenue,
                   bucket_pd, bars, part, acc>>

MergeTask(p) ==
    /\ pc \in {"cell2_job", "cell5_job"}
    /\ tasks[p] = "done"
    /\ acc' = MergeCounts(acc, partial[p])
    /\ tasks' = [tasks EXCEPT ![p] = "merged"]
    /\ UNCHANGED <<pc, df, count_rows, dropped, num_trips, expected_revenue,
                   bucket_pd, bars, part, partial>>

Cell2Finish ==
    /\ pc = "cell2_job"
    /\ \A p \in Partitions : tasks[p] = "merged"
    /\ num_trips' = acc["count"]
    /\ pc' = "cell3"
    /\ part' = None /\ tasks' = None /\ partial' = None /\ acc' = None
    /\ UNCHANGED <<df, count_rows, dropped, expected_revenue, bucket_pd, bars>>

Cell5Finish ==
    /\ pc = "cell5_job"
    /\ \A p \in Partitions : tasks[p] = "merged"
    /\ bucket_pd' \in ToPandas(acc)
    /\ pc' = "cell6"
    /\ part' = None /\ tasks' = None /\ partial' = None /\ acc' = None
    /\ UNCHANGED <<df, count_rows, dropped, num_trips, expected_revenue, bars>>

(***************************************************************************)
(* The input: the rows of the CSV files.  Coordinates are in degrees.      *)
(* Trips start at (0, 0) and run north or east, which is where Prec bits   *)
(* resolve distances of a mile; one trip stays at a station in New York    *)
(* and one runs between opposite points of the globe.                      *)
(***************************************************************************)
V(x) == [k |-> "val", v |-> x]

Absent == [k |-> "empty", v |-> 0]

Garbled == [k |-> "text", v |-> 0]

NaNText == [k |-> "nan", v |-> 0]

Seconds(n) == n * TicksPerSecond

Trip(s, e, lat1, lng1, lat2, lng2) ==
    [started_at |-> s, ended_at |-> e, start_lat |-> lat1,
     start_lng |-> lng1, end_lat |-> lat2, end_lng |-> lng2]

\* A trip from (0, 0) to (lat, lng).
FromOrigin(s, e, lat, lng) == Trip(V(s), V(e), V(Zero), V(Zero), V(lat), V(lng))

RowKinds ==
    << \* 1: 1700 s, 0.5 mi
       FromOrigin(0, Seconds(1700), N(1, 3793, -19), Zero),
       \* 2: 1900 s, 3 mi
       FromOrigin(0, Seconds(1900), Zero, N(1, 2845, -16)),
       \* 3: 2000 s, 15 mi
       FromOrigin(0, Seconds(2000), N(1, 3556, -14), Zero),
       \* 4: 1800 s, 1 mi
       FromOrigin(0, Seconds(1800), N(1, 3793, -18), Zero),
       \* 5: one tick over 1800 s, a little over 1 mi
       FromOrigin(0, Seconds(1800) + 1, N(1, 3795, -18), Zero),
       \* 6: 1801 s, 4 mi
       FromOrigin(0, Seconds(1801), Zero, N(1, 3793, -16)),
       \* 7: 0 s, 9 mi
       FromOrigin(Seconds(60), Seconds(60), N(1, 2134, -14), Zero),
       \* 8: ends 1900 s before it starts, a little over 9 mi
       FromOrigin(Seconds(1900), 0, N(1, 2135, -14), Zero),
       \* 9: ends one tick before it starts, a little over 4 mi
       FromOrigin(1, 0, N(1, 3795, -16), Zero),
       \* 10: 3600 s, returned to the station it left (40.71875, -74)
       Trip(V(0), V(Seconds(3600)), V(N(1, 2606, -6)), V(N(-1, 2368, -5)),
            V(N(1, 2606, -6)), V(N(-1, 2368, -5))),
       \* 11: 2400 s, from (9, 0) to the opposite point (-9, 180)
       Trip(V(0), V(Seconds(2400)), V(FromInt(9)), V(Zero),
            V(FromInt(-9)), V(FromInt(180))),
       \* 12: no start time
       Trip(Absent, V(Seconds(2000)), V(Zero), V(Zero), V(N(1, 3793, -19)), V(Zero)),
       \* 13: an end latitude that is no number
       Trip(V(0), V(Seconds(1900)), V(Zero), V(Zero), Garbled, V(Zero)),
       \* 14: a start longitude of NaN
       Trip(V(0), V(Seconds(1700)), V(Zero), NaNText, V(Zero), V(N(1, 2845, -16))) >>

\* Inputs of up to MaxRows rows, up to the order of the rows.
Inputs(kinds) ==
    UNION {{[i \in 1..n |-> RowKinds[f[i]]] :
               f \in {g \in [1..n -> kinds] :
                         \A i, j \in 1..n : i <= j => g[i] <= g[j]}} :
           n \in 0..MaxRows}

Start(kinds) ==
    /\ pc = "cell1"
    /\ df \in Inputs(kinds)
    /\ count_rows = None /\ dropped = None /\ num_trips = None
    /\ expected_revenue = None /\ bucket_pd = None /\ bars = None
    /\ part = None /\ tasks = None /\ partial = None /\ acc = None

Init == Start(1..Len(RowKinds))

Next ==
    \/ Cell1 \/ Cell2Start \/ Cell2Finish \/ Cell3 \/ Cell4
    \/ Cell5Start \/ Cell5Finish \/ Cell6 \/ Cell7
    \/ \E p \in Partitions : RunTask(p) \/ MergeTask(p)

Spec == Init /\ [][Next]_vars

(***************************************************************************)
(* Vocabulary of the properties.                                           *)
(***************************************************************************)
AfterCell1 == pc # "cell1"

AfterCell2 == pc \notin {"cell1", "cell2", "cell2_job"}

AfterCell3 == pc \notin {"cell1", "cell2", "cell2_job", "cell3"}

AfterCell4 == pc \in {"cell5", "cell5_job", "cell6", "cell7", "done"}

AfterCell5 == pc \in {"cell6", "cell7", "done"}

AfterCell6 == pc \in {"cell7", "done"}

Trips == 1..Len(df)

\* Ticks from the start of trip i to its end.
Ticks(i) == df[i].ended_at.v - df[i].started_at.v

\* The trips that last more than 1800 whole seconds.
LongTrips == {i \in Trips : Ticks(i) >= (LongTripSeconds + 1) * TicksPerSecond}

\* The trips that end no later than they start.
NonPositive == {i \in Trips : Ticks(i) <= 0}

\* The range of distances a bucket stands for.
InRange(label, d) ==
    CASE label = "0-1" -> Le(d, FromInt(1))
      [] label = "2-4" -> Gt(d, FromInt(1)) /\ Le(d, FromInt(4))
      [] label = "4-9" -> Gt(d, FromInt(4)) /\ Le(d, FromInt(9))
      [] label = "10+" -> Gt(d, FromInt(9))

Labels == {bucket_order[j] : j \in 1..Len(bucket_order)}

RECURSIVE SumCounts(_, _)
\* The count the rows of a bucket table give a label, 0 without such a row.
SumCounts(rows, label) ==
    IF rows = <<>> THEN 0
    ELSE (IF Head(rows).distance_bucket = label THEN Head(rows).count ELSE 0)
         + SumCounts(Tail(rows), label)

\* A raw CSV row with a required field absent or unparseable.
Incomplete(row) ==
    \/ row.started_at.k # "val" \/ row.ended_at.k # "val"
    \/ row.start_lat.k # "val" \/ row.start_lng.k # "val"
    \/ row.end_lat.k # "val" \/ row.end_lng.k # "val"

\* Trip i of df is the row of kind k.
IsKind(i, k) ==
    LET c == SelectCast(RowKinds[k])
    IN  /\ df[i].started_at = c.started_at /\ df[i].ended_at = c.ended_at
        /\ df[i].start_lat = c.start_lat /\ df[i].start_lng = c.start_lng
        /\ df[i].end_lat = c.end_lat /\ df[i].end_lng = c.end_lng

HasKind(k) == \E i \in Trips : IsKind(i, k)

DurationsAre(ds) ==
    Len(df) = Len(ds) /\ \A i \in Trips : df[i].tripduration = ds[i]

DistancesAre(ds) ==
    Len(df) = Len(ds) /\ \A i \in Trips : df[i].distance = ds[i]

(***************************************************************************)
(* The properties.                                                         *)
(***************************************************************************)

\* C1: the bucket table partitions the trips: every trip's distance lies in
\* exactly one of the four ranges (<= 1, (1, 4], (4, 9], > 9), the count the
\* table gives a bucket is the number of trips whose distance lies in its
\* range, and the counts sum to the number of cleaned trips.
C1_BucketPartition ==
    AfterCell5 =>
        /\ \A j \in 1..Len(bucket_pd) : bucket_pd[j].distance_bucket \in Labels
        /\ \A i \in Trips :
               Cardinality({l \in Labels : InRange(l, df[i].distance)}) = 1
        /\ \A l \in Labels :
               SumCounts(bucket_pd, l) =
                   Cardinality({i \in Trips : InRange(l, df[i].distance)})
        /\ SumCounts(bucket_pd, "0-1") + SumCounts(bucket_pd, "2-4")
           + SumCounts(bucket_pd, "4-9") + SumCounts(bucket_pd, "10+") = Len(df)

\* Trips of exactly 1, 4 and 9 miles, counted in "0-1", "2-4" and "4-9".
C1_Witness ==
    /\ pc = "done"
    /\ HasKind(4) /\ HasKind(6) /\ HasKind(7)
    /\ SumCounts(bars, "0-1") = 1 /\ SumCounts(bars, "2-4") = 1
    /\ SumCounts(bars, "4-9") = 1

\* C2: the long-trip count is the number of cleaned trips that last more
\* than 1800 whole seconds, that is, at least 1801 seconds.
C2_LongTripCount ==
    AfterCell2 => num_trips = Cardinality(LongTrips)

\* Trips of 1800 s, of 1800 s and a tick, and of 1801 s: one is long.
C2_Witness ==
    /\ AfterCell2
    /\ HasKind(4) /\ HasKind(5) /\ HasKind(6)
    /\ num_trips = 1

\* C3: cell 1 passes on exactly the rows with all six fields present and
\* parseable and reports the number of the others as dropped; afterwards
\* no row of df has a missing field.
C3_DropAccounting ==
    [][/\ pc = "cell1" =>
            LET K == Cardinality({i \in 1..Len(df) : Incomplete(df[i])})
            IN  /\ count_rows' = Len(df)
                /\ Len(df') = Len(df) - K
                /\ dropped' = K
                /\ df' = SelectSeq(Select(df),
                            LAMBDA r : \E i \in 1..Len(df) :
                                ~Incomplete(df[i]) /\ r = SelectCast(df[i]))
       /\ \A i \in 1..Len(df') :
            /\ ~df'[i].started_at.null /\ ~df'[i].ended_at.null
            /\ \A c \in {df'[i].start_lat, df'[i].start_lng,
                         df'[i].end_lat, df'[i].end_lng} :
                   ~c.null /\ ~IsNaN(c.v)
      ]_vars

\* A run in which cell 1 dropped a row and kept another.
C3_Witness == pc = "cell2" /\ dropped >= 1 /\ Len(df) >= 1

\* C4 (as claimed): the plotted labels are always 0-1, 2-4, 4-9, 10+.
C4_AllLabelsAlways ==
    AfterCell6 =>
        [j \in 1..Len(bars) |-> bars[j].distance_bucket] = bucket_order

\* C5 (as claimed): for the trips (1700 s, 0.5 mi), (1900 s, 3 mi) and
\* (2000 s, 15 mi) the run reports 2 long trips, revenue 0.40 and the
\* counts 0-1: 1, 2-4: 1, 4-9: 0, 10+: 1.
C5_EndToEnd ==
    (/\ pc = "done"
     /\ DurationsAre(<<1700, 1900, 2000>>)
     /\ DistancesAre(<<N(1, 2048, -12), N(1, 3072, -10), N(1, 3840, -8)>>))
    =>
    /\ num_trips = 2
    /\ Format2f(expected_revenue) = 40
    /\ bars = <<[distance_bucket |-> "0-1", count |-> 1],
                [distance_bucket |-> "2-4", count |-> 1],
                [distance_bucket |-> "4-9", count |-> 0],
                [distance_bucket |-> "10+", count |-> 1]>>

\* C6 (as claimed): when no row survives cleaning the run stops after
\* cell 1 instead of going on to the counts and the chart.
C6_EmptyInputStops ==
    (AfterCell1 /\ Len(df) = 0) => pc = "cell2"

\* C7: with the rows laid out over partitions in any way, the tasks run and
\* their partial counts merged in any order, the long-trip count and every
\* bucket count are those of one pass over all the rows.
C7_PartitionIndependent ==
    /\ (pc = "cell2_job" /\ \A p \in Partitions : tasks[p] = "merged")
           => acc = ("count" :> Len(long_trips(df)))
    /\ AfterCell2 => num_trips = Len(long_trips(df))
    /\ (pc = "cell5_job" /\ \A p \in Partitions : tasks[p] = "merged")
           => acc = GroupByCount(df)
    /\ AfterCell5 =>
           \A l \in Labels :
               SumCounts(bucket_pd, l) =
                   (IF l \in DOMAIN GroupByCount(df)
                    THEN GroupByCount(df)[l] ELSE 0)

\* Two rows of one bucket in different partitions, their counts merged.
C7_Witness ==
    /\ pc = "cell5_job"
    /\ \A p \in Partitions : tasks[p] = "merged"
    /\ \E i, j \in Trips :
           /\ part[i] # part[j]
           /\ distance_bucket(df[i].distance) = distance_bucket(df[j].distance)
    /\ \E i, j \in Trips : part[i] # part[j] /\ IsLongTrip(df[i]) /\ IsLongTrip(df[j])

\* C8: a trip that ends no later than it starts is in no long-trip count
\* and no revenue, and is counted in the bucket of its distance.
C8_NonPositiveDuration ==
    /\ AfterCell2 => num_trips <= Len(df) - Cardinality(NonPositive)
    /\ AfterCell3 =>
           Format2f(expected_revenue) <= 20 * (Len(df) - Cardinality(NonPositive))
    /\ AfterCell5 =>
           /\ \A i \in NonPositive :
                  Cardinality({l \in Labels : InRange(l, df[i].distance)}) = 1
           /\ \A l \in Labels :
                  SumCounts(bucket_pd, l) >=
                      Cardinality({i \in NonPositive : InRange(l, df[i].distance)})

\* A run of trips of zero and of negative duration only, all bucketed.
C8_Witness ==
    /\ pc = "done"
    /\ HasKind(7) /\ HasKind(8) /\ Len(df) = 2
    /\ num_trips = 0 /\ Format2f(expected_revenue) = 0
    /\ SumCounts(bars, "4-9") = 1 /\ SumCounts(bars, "10+") = 1

\* C9: the revenue printed is 20 cents for each long trip and for no other
\* trip; 1000 long trips give 200.00.
C9_Revenue ==
    /\ AfterCell3 => Format2f(expected_revenue) = 20 * Cardinality(LongTrips)
    /\ Format2f(Revenue(1000)) = 20000

\* One long trip among three: revenue 0.20.
C9_Witness ==
    /\ AfterCell3 /\ Len(df) = 3
    /\ Cardinality(LongTrips) = 1 /\ Format2f(expected_revenue) = 20

\* C10 (as claimed): the argument of the square root lies in [0, 1] for
\* every trip, and the distance is a number >= 0.
C10_Clamped ==
    AfterCell4 =>
        \A i \in Trips :
            /\ ~IsNaN(HaversineA(df[i]))
            /\ Le(Zero, HaversineA(df[i])) /\ Le(HaversineA(df[i]), One)
            /\ ~IsNaN(df[i].distance) /\ Le(Zero, df[i].distance)

=============================================================================
